---- MODULE Spec2Model ----
(***************************************************************************)
(* The git-commit chaincode (package chaincode, SmartContract) on top of   *)
(* the Fabric world state.  Strings are sequences of ASCII codes, so that  *)
(* key construction ("VERSION_" + repository, "PUSH_" + repository + "_"   *)
(* + timestamp) and key collisions are what they are in the program.       *)
(* Stored values are JSON objects: functions from member name to value.    *)
(***************************************************************************)
EXTENDS Integers, Sequences, FiniteSets, TLC

VARIABLES
    world,   \* the committed world state: key -> stored JSON object
    ver,     \* key -> the number of committed writes of the key (its version)
    pending, \* the endorsed transactions that wait for ordering, oldest first
    now,     \* the peer's wall clock, in seconds after ClockEpoch
    last,    \* the last transaction: operation, arguments, outcome
    ntx,     \* the number of transactions submitted or evaluated so far
    bumped,  \* per repository: the counter-changing operations committed on it
    incs     \* per repository: whether its counter was seeded at 1 and written
             \* by nothing but IncrementVersionNumber(repository) since (tracked),
             \* and the number n of those successful calls

vars == <<world, ver, pending, now, last, ntx, bumped, incs>>

----------------------------------------------------------------------------
(* Bounds *)

MaxTime == 1            \* the clock runs over 0..MaxTime seconds
MaxVersion == 3         \* increments are explored while the counter is below this
MaxTx == 3              \* at most this many transactions are invoked
MaxSetVersion == 1      \* SetRepositoryVersion is called with 0..MaxSetVersion
MaxEndorsed == 2        \* at most this many transactions are submitted concurrently

----------------------------------------------------------------------------
(* String literals of the program, as ASCII codes *)

\* "VERSION_"
VERSION_ == <<86, 69, 82, 83, 73, 79, 78, 95>>
\* "PUSH_"
PUSH_ == <<80, 85, 83, 72, 95>>
\* "_"
Underscore == <<95>>
\* "repo1", "repo2", "git-test"
repo1 == <<114, 101, 112, 111, 49>>
repo2 == <<114, 101, 112, 111, 50>>
gitTest == <<103, 105, 116, 45, 116, 101, 115, 116>>
\* "~", the last printable ASCII character: the end of the push range, and a
\* repository name a caller may choose
Tilde == <<126>>
\* "hash1", "hash2"
hash1 == <<104, 97, 115, 104, 49>>
hash2 == <<104, 97, 115, 104, 50>>
\* "Initial commit" is abbreviated to "I", "Added feature" to "F"
InitialCommit == <<73>>
AddedFeature == <<70>>
\* "Alice", "Bob"
Alice == <<65, 108, 105, 99, 101>>
Bob == <<66, 111, 98>>
\* "2023-06-01T12:00:00Z", "2023-06-02T12:00:00Z"
Stamp1 == <<50, 48, 50, 51, 45, 48, 54, 45, 48, 49, 84, 49, 50, 58, 48, 48, 58, 48, 48, 90>>
Stamp2 == <<50, 48, 50, 51, 45, 48, 54, 45, 48, 50, 84, 49, 50, 58, 48, 48, 58, 48, 48, 90>>

\* time.Now().UTC().Format(time.RFC3339): second granularity, fixed width,
\* zero padded.  The clock is read t seconds into the minute 2024-01-01T00:00.
Digit(d) == 48 + d
ClockEpoch == <<50, 48, 50, 52, 45, 48, 49, 45, 48, 49, 84, 48, 48, 58, 48, 48, 58>>
RFC3339(t) == ClockEpoch \o <<Digit((t \div 10) % 6), Digit(t % 10)>> \o <<90>>

----------------------------------------------------------------------------
(* encoding/json for the three struct types.  A JSON object is a function  *)
(* from member name to value; json.Unmarshal matches a member to a struct  *)
(* field by its tag, case-insensitively, and leaves unmatched fields at    *)
(* their zero value.                                                       *)

Fold(name) ==
    CASE name = "CommitHash" -> "commithash"
      [] name = "Repository" -> "repository"
      [] name = "repository" -> "repository"
      [] name = "CommitMessage" -> "commitmessage"
      [] name = "Author" -> "author"
      [] name = "VersionNumber" -> "versionnumber"
      [] name = "Timestamp" -> "timestamp"
      [] name = "timestamp" -> "timestamp"
      [] name = "remoteURL" -> "remoteurl"
      [] name = "version" -> "version"

Member(json, tag, zero) ==
    IF \E n \in DOMAIN json : Fold(n) = Fold(tag)
    THEN json[CHOOSE n \in DOMAIN json : Fold(n) = Fold(tag)]
    ELSE zero

MarshalGitCommit(g) ==
    [CommitHash |-> g.CommitHash, Repository |-> g.Repository,
     CommitMessage |-> g.CommitMessage, Author |-> g.Author,
     VersionNumber |-> g.VersionNumber, Timestamp |-> g.Timestamp]

UnmarshalGitCommit(json) ==
    [CommitHash |-> Member(json, "CommitHash", <<>>),
     Repository |-> Member(json, "Repository", <<>>),
     CommitMessage |-> Member(json, "CommitMessage", <<>>),
     Author |-> Member(json, "Author", <<>>),
     VersionNumber |-> Member(json, "VersionNumber", 0),
     Timestamp |-> Member(json, "Timestamp", <<>>)]

MarshalPushTransaction(p) ==
    [repository |-> p.Repository, remoteURL |-> p.RemoteURL,
     timestamp |-> p.Timestamp, version |-> p.Version,
     CommitHash |-> p.CommitHash]

UnmarshalPushTransaction(json) ==
    [Repository |-> Member(json, "repository", <<>>),
     RemoteURL |-> Member(json, "remoteURL", <<>>),
     Timestamp |-> Member(json, "timestamp", <<>>),
     Version |-> Member(json, "version", 0),
     CommitHash |-> Member(json, "CommitHash", <<>>)]

MarshalRepositoryVersion(v) ==
    [Repository |-> v.Repository, VersionNumber |-> v.VersionNumber]

UnmarshalRepositoryVersion(json) ==
    [Repository |-> Member(json, "Repository", <<>>),
     VersionNumber |-> Member(json, "VersionNumber", 0)]

----------------------------------------------------------------------------
(* The chaincode stub.  A transaction is simulated against the committed   *)
(* world state w: GetState returns the committed value of a key (a value   *)
(* written by PutState earlier in the same transaction is not visible to   *)
(* it), and PutState records the value in the transaction's write set, a   *)
(* later write to a key replacing an earlier one.                          *)

\* GetState(key) != nil
Present(w, key) == key \in DOMAIN w

GetState(w, key) == w[key]

NoWrites == [k \in {} |-> 0]

PutState(ws, key, value) ==
    [k \in (DOMAIN ws) \cup {key} |-> IF k = key THEN value ELSE ws[k]]

\* Byte-wise lexicographic order of strings: the order of the keys of the
\* world state and of Go's < on strings.
RECURSIVE LessFrom(_, _, _)
LessFrom(a, b, i) ==
    IF i > Len(a) THEN i <= Len(b)
    ELSE IF i > Len(b) THEN FALSE
    ELSE IF a[i] = b[i] THEN LessFrom(a, b, i + 1)
    ELSE a[i] < b[i]

StringLess(a, b) == LessFrom(a, b, 1)

\* The keys of a finite set in ascending order: each key stands at the place
\* after the keys that are less than it.
Ascending(keys) ==
    LET before == [k \in keys |-> Cardinality({x \in keys : StringLess(x, k)})]
    IN  [i \in 1..Cardinality(keys) |-> CHOOSE k \in keys : before[k] = i - 1]

\* Mutant: the scan leaves out the keys of the version counters.
GetStateByRangeSkippingVersions(w, startKey, endKey) ==
    LET inRange == {k \in DOMAIN w :
                       /\ ~(Len(k) >= 8 /\ SubSeq(k, 1, 8) = VERSION_)
                       /\ (k = startKey \/ StringLess(startKey, k))
                       /\ (endKey = <<>> \/ StringLess(k, endKey))}
        order == Ascending(inRange)
    IN  [i \in 1..Len(order) |-> [Key |-> order[i], Value |-> w[order[i]]]]

\* GetStateByRange(startKey, endKey): the entries with startKey <= key <
\* endKey in ascending key order; an empty endKey leaves the range open.
GetStateByRange(w, startKey, endKey) ==
    LET inRange == {k \in DOMAIN w :
                       /\ (k = startKey \/ StringLess(startKey, k))
                       /\ (endKey = <<>> \/ StringLess(k, endKey))}
        order == Ascending(inRange)
    IN  [i \in 1..Len(order) |-> [Key |-> order[i], Value |-> w[order[i]]]]

\* The outcome of a simulation: an error kind ("OK" for none), the write
\* set, and the value returned to the caller.
NoValue == [none |-> 0]
Failure(kind, ws) == [err |-> kind, ws |-> ws, ret |-> NoValue]
Success(ws, ret) == [err |-> "OK", ws |-> ws, ret |-> ret]

----------------------------------------------------------------------------
(* The contract's transaction functions.  w is the committed world state   *)
(* the transaction is simulated against, ws the write set so far, t the    *)
(* clock reading.                                                          *)

InitLedger ==
    LET gitCommits ==
            <<[CommitHash |-> hash1, Repository |-> repo1,
               CommitMessage |-> InitialCommit, Author |-> Alice,
               VersionNumber |-> 1, Timestamp |-> Stamp1],
              [CommitHash |-> hash2, Repository |-> repo2,
               CommitMessage |-> AddedFeature, Author |-> Bob,
               VersionNumber |-> 1, Timestamp |-> Stamp2]>>
        repoVersions ==
            <<[Repository |-> repo1, VersionNumber |-> 1],
              [Repository |-> repo2, VersionNumber |-> 1],
              [Repository |-> gitTest, VersionNumber |-> 1]>>
        ws1 == PutState(NoWrites, gitCommits[1].CommitHash, MarshalGitCommit(gitCommits[1]))
        ws2 == PutState(ws1, gitCommits[2].CommitHash, MarshalGitCommit(gitCommits[2]))
        ws3 == PutState(ws2, VERSION_ \o repoVersions[1].Repository,
                        MarshalRepositoryVersion(repoVersions[1]))
        ws4 == PutState(ws3, VERSION_ \o repoVersions[2].Repository,
                        MarshalRepositoryVersion(repoVersions[2]))
        ws5 == PutState(ws4, VERSION_ \o repoVersions[3].Repository,
                        MarshalRepositoryVersion(repoVersions[3]))
    IN  Success(ws5, NoValue)

\* Mutant: the existence check never finds the key.
GitCommitExistsNever(w, commitHash) ==
    Success(NoWrites, [exists |-> FALSE])

GitCommitExists(w, commitHash) ==
    Success(NoWrites, [exists |-> Present(w, commitHash)])

\* Mutant: the read stores the commit it has decoded back under its key.
ReadGitCommitRewriting(w, commitHash) ==
    IF ~Present(w, commitHash)
    THEN Failure("NotFound", NoWrites)
    ELSE LET gitCommit == UnmarshalGitCommit(GetState(w, commitHash))
         IN  Success(PutState(NoWrites, commitHash, MarshalGitCommit(gitCommit)),
                     gitCommit)

ReadGitCommit(w, commitHash) ==
    IF ~Present(w, commitHash)
    THEN Failure("NotFound", NoWrites)
    ELSE Success(NoWrites, UnmarshalGitCommit(GetState(w, commitHash)))

\* sort.Slice(gitCommits, less) with less(i, j) = Timestamp[i] < Timestamp[j]:
\* for the slices of up to 12 elements met here it is an insertion sort, each
\* element moving left while it is less than its left neighbour.
RECURSIVE InsertByTimestamp(_, _)
InsertByTimestamp(sorted, g) ==
    IF sorted # <<>> /\ StringLess(g.Timestamp, sorted[Len(sorted)].Timestamp)
    THEN InsertByTimestamp(SubSeq(sorted, 1, Len(sorted) - 1), g)
             \o <<sorted[Len(sorted)]>>
    ELSE sorted \o <<g>>

RECURSIVE SortSlice(_)
SortSlice(gitCommits) ==
    IF gitCommits = <<>> THEN <<>>
    ELSE InsertByTimestamp(SortSlice(SubSeq(gitCommits, 1, Len(gitCommits) - 1)),
                           gitCommits[Len(gitCommits)])

\* Mutant: the commits are returned in the order of the scan.
GetAllGitCommitsUnsorted(w) ==
    LET results == GetStateByRange(w, <<>>, <<>>)
        gitCommits == [i \in 1..Len(results) |-> UnmarshalGitCommit(results[i].Value)]
    IN  Success(NoWrites, gitCommits)

GetAllGitCommits(w) ==
    LET results == GetStateByRange(w, <<>>, <<>>)
        gitCommits == [i \in 1..Len(results) |-> UnmarshalGitCommit(results[i].Value)]
    IN  Success(NoWrites, SortSlice(gitCommits))

\* "PUSH_~"
PUSH_End == PUSH_ \o Tilde

GetAllPushTransactions(w) ==
    LET results == GetStateByRange(w, PUSH_, PUSH_End)
        pushTransactions ==
            [i \in 1..Len(results) |-> UnmarshalPushTransaction(results[i].Value)]
    IN  Success(NoWrites, pushTransactions)

GetRepositoryVersion(w, ws, repository) ==
    IF ~Present(w, VERSION_ \o repository)
    THEN Failure("NoVersion", ws)
    ELSE Success(ws, UnmarshalRepositoryVersion(GetState(w, VERSION_ \o repository)))

SetRepositoryVersion(ws, repoVersion) ==
    Success(PutState(ws, VERSION_ \o repoVersion.Repository,
                     MarshalRepositoryVersion(repoVersion)),
            NoValue)

\* Mutant: a repository without a counter is seeded instead of refused.
IncrementVersionNumberSeeding(w, ws, repository) ==
    LET got == GetRepositoryVersion(w, ws, repository)
    IN  IF got.err # "OK"
        THEN SetRepositoryVersion(ws, [Repository |-> repository, VersionNumber |-> 1])
        ELSE SetRepositoryVersion(ws, [got.ret EXCEPT !.VersionNumber = @ + 1])

\* Mutant: the counter is written back without the increment.
IncrementVersionNumberNoAdd(w, ws, repository) ==
    LET got == GetRepositoryVersion(w, ws, repository)
    IN  IF got.err # "OK"
        THEN got
        ELSE SetRepositoryVersion(ws, got.ret)

IncrementVersionNumber(w, ws, repository) ==
    LET got == GetRepositoryVersion(w, ws, repository)
    IN  IF got.err # "OK"
        THEN got
        ELSE SetRepositoryVersion(ws, [got.ret EXCEPT !.VersionNumber = @ + 1])

\* Mutant: a fresh counter starts at 0.
FirstVersionZero(repository) == [Repository |-> repository, VersionNumber |-> 0]

\* The RepositoryVersion CreateGitCommit makes for a repository without one.
FirstVersion(repository) == [Repository |-> repository, VersionNumber |-> 1]

CreateGitCommit(w, t, commitHash, repository, commitMessage, author) ==
    IF GitCommitExists(w, commitHash).ret.exists
    THEN Failure("AlreadyExists", NoWrites)
    ELSE
        LET got == GetRepositoryVersion(w, NoWrites, repository)
            seed == FirstVersion(repository)
            repoVersion == IF got.err = "OK" THEN got.ret ELSE seed
            ws1 == IF got.err = "OK" THEN got.ws
                   ELSE SetRepositoryVersion(NoWrites, seed).ws
            gitCommit ==
                [CommitHash |-> commitHash, Repository |-> repository,
                 CommitMessage |-> commitMessage, Author |-> author,
                 VersionNumber |-> repoVersion.VersionNumber,
                 Timestamp |-> RFC3339(t)]
        IN  Success(PutState(ws1, commitHash, MarshalGitCommit(gitCommit)), NoValue)

\* "All testing is done and audit processes approved, move to build stage.
\* Git clone link: " is abbreviated to "link: "
BuildMessage == <<108, 105, 110, 107, 58, 32>>

\* Mutant: the commit's repository is not compared.
RepositoryMismatchIgnored(lastCommit, repository) == FALSE

RepositoryMismatch(lastCommit, repository) == lastCommit.Repository # repository

HandleGitPush(w, t, repository, remoteURL, commitHash) ==
    LET inc == IncrementVersionNumber(w, NoWrites, repository)
    IN  IF inc.err # "OK" THEN inc
        ELSE IF ~Present(w, commitHash) THEN Failure("NotFound", inc.ws)
        ELSE
            LET lastCommit == UnmarshalGitCommit(GetState(w, commitHash))
            IN  IF RepositoryMismatch(lastCommit, repository)
                THEN Failure("RepositoryMismatch", inc.ws)
                ELSE
                    LET remoteURLWithHash == remoteURL
                        ws1 == PutState(inc.ws, commitHash, MarshalGitCommit(lastCommit))
                        got == GetRepositoryVersion(w, ws1, repository)
                        pushTx ==
                            [Repository |-> repository,
                             RemoteURL |-> remoteURLWithHash,
                             Timestamp |-> RFC3339(t),
                             Version |-> got.ret.VersionNumber,
                             CommitHash |-> commitHash]
                        pushTxKey == PUSH_ \o repository \o Underscore \o pushTx.Timestamp
                    IN  IF got.err # "OK" THEN got
                        ELSE Success(PutState(ws1, pushTxKey, MarshalPushTransaction(pushTx)),
                                     [message |-> BuildMessage \o remoteURLWithHash])

----------------------------------------------------------------------------
(* Submitting a transaction: a simulation that returned an error is not    *)
(* endorsed and nothing of its write set reaches the world state; a        *)
(* successful one has its whole write set applied.                         *)

\* Mutant: the write set of a failed simulation is applied too.
CommitPartial(w, tx) ==
    [k \in (DOMAIN w) \cup (DOMAIN tx.ws) |->
        IF k \in DOMAIN tx.ws THEN tx.ws[k] ELSE w[k]]

Commit(w, tx) ==
    IF tx.err = "OK"
    THEN [k \in (DOMAIN w) \cup (DOMAIN tx.ws) |->
             IF k \in DOMAIN tx.ws THEN tx.ws[k] ELSE w[k]]
    ELSE w

\* The version of a key in the committed state: 0 while it was never written.
Version(v, key) == IF key \in DOMAIN v THEN v[key] ELSE 0

\* The versions after the commit of tx: every key of an applied write set
\* gets a new version.
Versions(v, tx) ==
    IF tx.err = "OK"
    THEN [k \in (DOMAIN v) \cup (DOMAIN tx.ws) |->
             IF k \in DOMAIN tx.ws THEN Version(v, k) + 1 ELSE v[k]]
    ELSE v

----------------------------------------------------------------------------
(* Callers' inputs.  Commit hashes and repository names are caller-chosen  *)
(* strings, so a hash may spell a version key or a push key.               *)

Repos == {repo1, Tilde}
Hashes == {hash1, hash2, VERSION_ \o repo1,
           PUSH_ \o repo1 \o Underscore \o RFC3339(0)}
\* "u"
URLs == {<<117>>}
\* "m"
Messages == {<<109>>}
Authors == {Alice}

AllRepos == Repos \cup {repo2, gitTest}
Untracked == [tracked |-> FALSE, n |-> 0]
Seeded == [tracked |-> TRUE, n |-> 0]

Call(op, repository, commitHash, remoteURL, version, tx) ==
    [op |-> op, repository |-> repository, commitHash |-> commitHash,
     remoteURL |-> remoteURL, version |-> version,
     err |-> tx.err, wrote |-> DOMAIN tx.ws, ret |-> tx.ret]

\* The counter a caller of GetRepositoryVersion sees for a repository in w
\* (0 when the repository has none).
Counter(w, repository) ==
    IF Present(w, VERSION_ \o repository)
    THEN GetRepositoryVersion(w, NoWrites, repository).ret.VersionNumber
    ELSE 0

\* Bookkeeping for incs after a transaction tx of operation op on repository.
Tracked(op, repository, tx) ==
    [r \in AllRepos |->
        IF tx.err # "OK" THEN incs[r]
        ELSE IF op = "IncrementVersionNumber" /\ repository = r
             THEN (IF incs[r].tracked THEN [incs[r] EXCEPT !.n = @ + 1] ELSE Untracked)
        ELSE IF (VERSION_ \o r) \notin DOMAIN tx.ws THEN incs[r]
        ELSE IF op = "InitLedger" THEN Seeded
        ELSE IF op = "CreateGitCommit" /\ repository = r
                /\ ~Present(world, VERSION_ \o r) THEN Seeded
        ELSE Untracked]

Bumping == {"IncrementVersionNumber", "SetRepositoryVersion", "HandleGitPush"}

Submit(op, repository, commitHash, remoteURL, version, tx) ==
    /\ ntx < MaxTx
    /\ ntx' = ntx + 1
    /\ world' = Commit(world, tx)
    /\ last' = Call(op, repository, commitHash, remoteURL, version, tx)
    /\ bumped' = [r \in AllRepos |->
                      IF tx.err = "OK" /\ op \in Bumping /\ repository = r
                      THEN bumped[r] \cup {op} ELSE bumped[r]]
    /\ incs' = Tracked(op, repository, tx)
    /\ ver' = Versions(ver, tx)
    /\ UNCHANGED <<now, pending>>

\* A read: whatever write set its simulation produced is committed like any
\* other, since every function of the contract can be submitted.
Evaluate(op, repository, commitHash, tx) ==
    /\ ntx < MaxTx
    /\ ntx' = ntx + 1
    /\ world' = Commit(world, tx)
    /\ last' = Call(op, repository, commitHash, <<>>, 0, tx)
    /\ ver' = Versions(ver, tx)
    /\ UNCHANGED <<now, pending, bumped, incs>>

Init ==
    /\ world = NoWrites
    /\ ver = NoWrites
    /\ pending = <<>>
    /\ now = 0
    /\ ntx = 0
    /\ last = [op |-> "none", repository |-> <<>>, commitHash |-> <<>>,
               remoteURL |-> <<>>, version |-> 0,
               err |-> "OK", wrote |-> {}, ret |-> NoValue]
    /\ bumped = [r \in AllRepos |-> {}]
    /\ incs = [r \in AllRepos |-> Untracked]

Tick ==
    /\ now < MaxTime
    /\ now' = now + 1
    /\ UNCHANGED <<world, ver, pending, last, ntx, bumped, incs>>

SubmitInitLedger ==
    Submit("InitLedger", <<>>, <<>>, <<>>, 0, InitLedger)

SubmitCreateGitCommit ==
    \E commitHash \in Hashes, repository \in Repos,
       commitMessage \in Messages, author \in Authors :
        Submit("CreateGitCommit", repository, commitHash, <<>>, 0,
               CreateGitCommit(world, now, commitHash, repository, commitMessage, author))

SubmitIncrementVersionNumber ==
    \E repository \in Repos :
        /\ Counter(world, repository) < MaxVersion
        /\ Submit("IncrementVersionNumber", repository, <<>>, <<>>, 0,
                  IncrementVersionNumber(world, NoWrites, repository))

SubmitSetRepositoryVersion ==
    \E repository \in Repos, versionNumber \in 0..MaxSetVersion :
        Submit("SetRepositoryVersion", repository, <<>>, <<>>, versionNumber,
               SetRepositoryVersion(NoWrites, [Repository |-> repository,
                                               VersionNumber |-> versionNumber]))

SubmitHandleGitPush ==
    \E repository \in Repos, remoteURL \in URLs, commitHash \in Hashes :
        /\ Counter(world, repository) < MaxVersion
        /\ Submit("HandleGitPush", repository, commitHash, remoteURL, 0,
                  HandleGitPush(world, now, repository, remoteURL, commitHash))

EvaluateReadGitCommit ==
    \E commitHash \in Hashes :
        Evaluate("ReadGitCommit", <<>>, commitHash, ReadGitCommit(world, commitHash))

EvaluateGitCommitExists ==
    \E commitHash \in Hashes :
        Evaluate("GitCommitExists", <<>>, commitHash, GitCommitExists(world, commitHash))

EvaluateGetRepositoryVersion ==
    \E repository \in Repos :
        Evaluate("GetRepositoryVersion", repository, <<>>,
                 GetRepositoryVersion(world, NoWrites, repository))

EvaluateGetAllGitCommits ==
    Evaluate("GetAllGitCommits", <<>>, <<>>, GetAllGitCommits(world))

EvaluateGetAllPushTransactions ==
    Evaluate("GetAllPushTransactions", <<>>, <<>>, GetAllPushTransactions(world))

Next ==
    \/ Tick
    \/ SubmitInitLedger
    \/ SubmitCreateGitCommit
    \/ SubmitIncrementVersionNumber
    \/ SubmitSetRepositoryVersion
    \/ SubmitHandleGitPush
    \/ EvaluateReadGitCommit
    \/ EvaluateGitCommitExists
    \/ EvaluateGetRepositoryVersion
    \/ EvaluateGetAllGitCommits
    \/ EvaluateGetAllPushTransactions

Spec == Init /\ [][Next]_vars

----------------------------------------------------------------------------
(* Concurrent submission.  A client's SubmitTransaction has the peer       *)
(* simulate the chaincode against the committed state, which yields the    *)
(* keys read with their versions and the write set; the endorsed           *)
(* transaction then waits for ordering.  At commit the peer validates the   *)
(* read set against the state that the transactions ordered before it have  *)
(* left: a key whose version has changed invalidates the transaction, and   *)
(* nothing of its write set is applied.                                     *)

\* The keys the simulation of each operation reads through GetState.
\* Mutant: the simulation does not read the repository's counter.
CreateGitCommitReadsHashOnly(w, commitHash, repository) == {commitHash}

CreateGitCommitReads(w, commitHash, repository) ==
    IF Present(w, commitHash) THEN {commitHash}
    ELSE {commitHash, VERSION_ \o repository}

IncrementVersionNumberReads(repository) == {VERSION_ \o repository}

HandleGitPushReads(w, repository, commitHash) ==
    IF ~Present(w, VERSION_ \o repository) THEN {VERSION_ \o repository}
    ELSE {VERSION_ \o repository, commitHash}

\* SetRepositoryVersion and InitLedger put without reading.
BlindWrite == {}

ReadSet(v, keys) == [k \in keys |-> Version(v, k)]

\* MVCC validation of a read set against the committed versions.
Valid(v, rs) == \A k \in DOMAIN rs : Version(v, k) = rs[k]

Remove(seq, i) == SubSeq(seq, 1, i - 1) \o SubSeq(seq, i + 1, Len(seq))

\* Bookkeeping for incs under concurrent submission: n counts the committed
\* IncrementVersionNumber(repository) and HandleGitPush(repository, ..)
\* transactions since the counter was seeded at 1.
Counted(op, repository, tx) ==
    [r \in AllRepos |->
        IF tx.err # "OK" THEN incs[r]
        ELSE IF op \in {"IncrementVersionNumber", "HandleGitPush"} /\ repository = r
             THEN (IF incs[r].tracked THEN [incs[r] EXCEPT !.n = @ + 1] ELSE Untracked)
        ELSE IF (VERSION_ \o r) \notin DOMAIN tx.ws THEN incs[r]
        ELSE IF op = "InitLedger" THEN Seeded
        ELSE IF op = "CreateGitCommit" /\ repository = r
                /\ ~Present(world, VERSION_ \o r) THEN Seeded
        ELSE Untracked]

\* The peer endorses a transaction whose simulation succeeded; a simulation
\* that returned an error goes back to the client and is not submitted.
Endorse(op, repository, commitHash, remoteURL, version, reads, tx) ==
    /\ ntx < MaxEndorsed
    /\ tx.err = "OK"
    /\ ntx' = ntx + 1
    /\ pending' = Append(pending,
                         [op |-> op, repository |-> repository,
                          commitHash |-> commitHash, remoteURL |-> remoteURL,
                          version |-> version, rs |-> ReadSet(ver, reads), tx |-> tx])
    /\ UNCHANGED <<world, ver, now, last, bumped, incs>>

EndorseInitLedger ==
    Endorse("InitLedger", <<>>, <<>>, <<>>, 0, BlindWrite, InitLedger)

EndorseCreateGitCommit ==
    \E commitHash \in Hashes, repository \in Repos,
       commitMessage \in Messages, author \in Authors :
        Endorse("CreateGitCommit", repository, commitHash, <<>>, 0,
                CreateGitCommitReads(world, commitHash, repository),
                CreateGitCommit(world, now, commitHash, repository, commitMessage, author))

EndorseIncrementVersionNumber ==
    \E repository \in Repos :
        /\ Counter(world, repository) < MaxVersion
        /\ Endorse("IncrementVersionNumber", repository, <<>>, <<>>, 0,
                   IncrementVersionNumberReads(repository),
                   IncrementVersionNumber(world, NoWrites, repository))

EndorseSetRepositoryVersion ==
    \E repository \in Repos, versionNumber \in 0..MaxSetVersion :
        Endorse("SetRepositoryVersion", repository, <<>>, <<>>, versionNumber,
                BlindWrite,
                SetRepositoryVersion(NoWrites, [Repository |-> repository,
                                                VersionNumber |-> versionNumber]))

EndorseHandleGitPush ==
    \E repository \in Repos, remoteURL \in URLs, commitHash \in Hashes :
        /\ Counter(world, repository) < MaxVersion
        /\ Endorse("HandleGitPush", repository, commitHash, remoteURL, 0,
                   HandleGitPushReads(world, repository, commitHash),
                   HandleGitPush(world, now, repository, remoteURL, commitHash))

\* The outcome of the transaction p at commit, against the versions v.
Validated(v, p) ==
    IF Valid(v, p.rs) THEN p.tx ELSE Failure("MVCC_READ_CONFLICT", NoWrites)

\* The ordering service delivers one of the waiting transactions, in any
\* order, and the peer validates and commits it.
Order ==
    \E i \in 1..Len(pending) :
        LET p == pending[i]
            tx == Validated(ver, p)
        IN  /\ pending' = Remove(pending, i)
            /\ world' = Commit(world, tx)
            /\ ver' = Versions(ver, tx)
            /\ last' = Call(p.op, p.repository, p.commitHash, p.remoteURL, p.version, tx)
            /\ bumped' = [r \in AllRepos |->
                              IF tx.err = "OK" /\ p.op \in Bumping /\ p.repository = r
                              THEN bumped[r] \cup {p.op} ELSE bumped[r]]
            /\ incs' = Counted(p.op, p.repository, tx)
            /\ UNCHANGED <<now, ntx>>

NextMVCC ==
    \/ Tick
    \/ EndorseInitLedger
    \/ EndorseCreateGitCommit
    \/ EndorseIncrementVersionNumber
    \/ EndorseSetRepositoryVersion
    \/ EndorseHandleGitPush
    \/ Order

\* Concurrent clients meet the ledger empty or as InitLedger has seeded it.
InitMVCC ==
    \/ Init
    \/ /\ world = Commit(NoWrites, InitLedger)
       /\ ver = Versions(NoWrites, InitLedger)
       /\ pending = <<>>
       /\ now = 0
       /\ ntx = 0
       /\ last = Call("InitLedger", <<>>, <<>>, <<>>, 0, InitLedger)
       /\ bumped = [r \in AllRepos |-> {}]
       /\ incs = [r \in AllRepos |-> Seeded]

SpecMVCC == InitMVCC /\ [][NextMVCC]_vars

----------------------------------------------------------------------------
(* Vocabulary of the properties *)

VersionKey(repository) == VERSION_ \o repository
PushKey(repository, t) == PUSH_ \o repository \o Underscore \o RFC3339(t)

HasPrefix(key, prefix) ==
    /\ Len(key) >= Len(prefix)
    /\ SubSeq(key, 1, Len(prefix)) = prefix

\* The stored object has the members of a CommitRecord / of a PushEvent.
IsCommitRecord(json) ==
    DOMAIN json = {"CommitHash", "Repository", "CommitMessage", "Author",
                   "VersionNumber", "Timestamp"}
IsPushEvent(json) ==
    DOMAIN json = {"repository", "remoteURL", "timestamp", "version", "CommitHash"}

\* The PushEvents of a world state, with their keys.
PushEvents(w) == {<<k, w[k]>> : k \in {x \in DOMAIN w : HasPrefix(x, PUSH_)}}

\* This step is the invocation of the operation op.
Submitted(op) == ntx' = ntx + 1 /\ last'.op = op

----------------------------------------------------------------------------
(* C1: a successful handlePush(R, url, h), where R's counter is v and a    *)
(* CommitRecord h of repository R exists, leaves R's counter at v+1 and    *)
(* stores a PushEvent with repository R, remoteURL url, commitHash h and   *)
(* version v+1.                                                            *)
C1_PushStampsIncrementedVersion ==
    [][\A R \in Repos, h \in Hashes, url \in URLs :
        ( /\ Submitted("HandleGitPush")
          /\ last'.repository = R /\ last'.commitHash = h /\ last'.remoteURL = url
          /\ last'.err = "OK"
          /\ Present(world, VersionKey(R))
          /\ Present(world, h) /\ IsCommitRecord(world[h])
          /\ UnmarshalGitCommit(world[h]).Repository = R )
        => /\ Counter(world', R) = Counter(world, R) + 1
           /\ Present(world', PushKey(R, now))
           /\ UnmarshalPushTransaction(world'[PushKey(R, now)]) =
                  [Repository |-> R, RemoteURL |-> url, Timestamp |-> RFC3339(now),
                   Version |-> Counter(world, R) + 1, CommitHash |-> h]
    ]_vars

(* C2: handlePush(R, url, h), where the record stored under h has a        *)
(* repository other than R and R has a version counter, fails with         *)
(* RepositoryMismatch and leaves the set of PushEvents as it was.          *)
C2_MismatchRefused ==
    [][\A R \in Repos, h \in Hashes :
        ( /\ Submitted("HandleGitPush")
          /\ last'.repository = R /\ last'.commitHash = h
          /\ Present(world, VersionKey(R))
          /\ Present(world, h)
          /\ UnmarshalGitCommit(world[h]).Repository # R )
        => /\ last'.err = "RepositoryMismatch"
           /\ PushEvents(world') = PushEvents(world)
    ]_vars

C2_Witness ==
    /\ last.op = "HandleGitPush" /\ last.err = "RepositoryMismatch"
    /\ Present(world, VersionKey(last.repository))
    /\ Present(world, last.commitHash)
    /\ IsCommitRecord(world[last.commitHash])
    /\ UnmarshalGitCommit(world[last.commitHash]).Repository # last.repository

(* C3: handlePush(R, url, h) on a repository without a RepositoryVersion   *)
(* fails with NoVersion, whether or not a record for h exists or matches   *)
(* R; no PushEvent and no RepositoryVersion for R is created.              *)
C3_NoVersionRefused ==
    [][\A R \in Repos :
        ( /\ Submitted("HandleGitPush")
          /\ last'.repository = R
          /\ ~Present(world, VersionKey(R)) )
        => /\ last'.err = "NoVersion"
           /\ PushEvents(world') = PushEvents(world)
           /\ ~Present(world', VersionKey(R))
    ]_vars

\* The refused push named a commit that exists (of another repository).
C3_Witness ==
    /\ last.op = "HandleGitPush" /\ last.err = "NoVersion"
    /\ ~Present(world, VersionKey(last.repository))
    /\ Present(world, last.commitHash)
    /\ IsCommitRecord(world[last.commitHash])

C5_DuplicateRefused ==
    [][\A h \in Hashes :
        ( /\ Submitted("CreateGitCommit")
          /\ last'.commitHash = h
          /\ Present(world, h) /\ IsCommitRecord(world[h]) )
        => /\ last'.err = "AlreadyExists"
           /\ world' = world
    ]_vars

\* The duplicate was submitted for another repository than the record's.
C5_Witness ==
    /\ last.op = "CreateGitCommit" /\ last.err = "AlreadyExists"
    /\ IsCommitRecord(world[last.commitHash])
    /\ UnmarshalGitCommit(world[last.commitHash]).Repository # last.repository

C7_IncrementsAddUp ==
    \A R \in AllRepos :
        incs[R].tracked =>
            /\ Present(world, VersionKey(R))
            /\ GetRepositoryVersion(world, NoWrites, R).ret.VersionNumber = 1 + incs[R].n

C7_Witness ==
    \E R \in AllRepos :
        incs[R].tracked /\ incs[R].n = 2 /\ last.op = "IncrementVersionNumber"

(* C8: over any sequence of operations a repository's RepositoryVersion    *)
(* first appears with versionNumber 1 and its versionNumber never          *)
(* decreases from one committed state to the next.                         *)
C8_VersionMonotonic ==
    [][\A R \in AllRepos :
        /\ (~Present(world, VersionKey(R)) /\ Present(world', VersionKey(R)))
              => Counter(world', R) = 1
        /\ Present(world, VersionKey(R))
              => /\ Present(world', VersionKey(R))
                 /\ Counter(world', R) >= Counter(world, R)
    ]_vars

(* C9: once a CommitRecord with hash h has been created, the key h stays   *)
(* present and its repository, versionNumber and timestamp stay the values *)
(* written at creation, also across handlePush's rewrite.                  *)
C9_CommitRecordImmutable ==
    [][\A h \in DOMAIN world :
        IsCommitRecord(world[h])
        => /\ Present(world', h)
           /\ UnmarshalGitCommit(world'[h]).Repository = UnmarshalGitCommit(world[h]).Repository
           /\ UnmarshalGitCommit(world'[h]).VersionNumber = UnmarshalGitCommit(world[h]).VersionNumber
           /\ UnmarshalGitCommit(world'[h]).Timestamp = UnmarshalGitCommit(world[h]).Timestamp
    ]_vars

(* C10: once a PushEvent is stored under a push key, the key stays present *)
(* with the same repository, remoteURL, timestamp, version and commitHash. *)
C10_PushEventsAppendOnly ==
    [][\A k \in DOMAIN world :
        (HasPrefix(k, PUSH_) /\ IsPushEvent(world[k]))
        => /\ Present(world', k)
           /\ UnmarshalPushTransaction(world'[k]) = UnmarshalPushTransaction(world[k])
    ]_vars

----------------------------------------------------------------------------
(* C11: every stored PushEvent's commitHash is the key of a CommitRecord   *)
(* (a record stored under its own commit hash, not a version or push       *)
(* record) whose repository equals the PushEvent's repository.             *)
StoredUnderOwnHash(w, commitHash) ==
    /\ Present(w, commitHash)
    /\ IsCommitRecord(GetState(w, commitHash))
    /\ GetState(w, commitHash).CommitHash = commitHash

C11_PushReferencesCommit ==
    \A k \in DOMAIN world :
        IsPushEvent(world[k]) =>
            /\ StoredUnderOwnHash(world, world[k].CommitHash)
            /\ GetState(world, world[k].CommitHash).Repository = world[k].repository

----------------------------------------------------------------------------
(* C12: listAllPushEvents returns only records that handlePush wrote as    *)
(* PushEvents: never a record written by createCommit, setVersion or       *)
(* incrementVersion, whatever commit hashes and repository names the       *)
(* callers choose.                                                         *)
C12_ListsOnlyPushEvents ==
    LET pushTransactions == GetAllPushTransactions(world).ret
    IN  \A i \in 1..Len(pushTransactions) :
            \E k \in DOMAIN world :
                /\ IsPushEvent(world[k])
                /\ pushTransactions[i] = UnmarshalPushTransaction(world[k])

----------------------------------------------------------------------------
(* C13: listAllCommits returns its entries in ascending order of timestamp *)
(* whatever the order in which they were stored, and a second call with no *)
(* write in between returns the identical sequence.                        *)
AscendingTimestamps(gitCommits) ==
    \A i, j \in 1..Len(gitCommits) :
        i < j => ~StringLess(gitCommits[j].Timestamp, gitCommits[i].Timestamp)

\* After a listing: what it returned is in order, and the listing made again
\* on the store as it is now returns the same sequence.
C13_ListSortedAndRepeatable ==
    last.op = "GetAllGitCommits" =>
        /\ AscendingTimestamps(last.ret)
        /\ GetAllGitCommits(world).ret = last.ret

\* A listing in which a commit with the smaller hash but the later timestamp
\* comes after one with the larger hash: the sort has reordered the scan.
C13_Witness ==
    /\ last.op = "GetAllGitCommits"
    /\ \E i, j \in 1..Len(last.ret) :
           /\ i < j
           /\ StringLess(last.ret[i].Timestamp, last.ret[j].Timestamp)
           /\ last.ret[i].Timestamp # <<>>
           /\ StringLess(last.ret[j].CommitHash, last.ret[i].CommitHash)

----------------------------------------------------------------------------
(* C14: the read operations readCommit, commitExists, listAllCommits,      *)
(* getVersion and listAllPushEvents leave every key of the store as it     *)
(* was, whether they succeed or fail, and the same read repeated with no   *)
(* write in between returns the identical result.                          *)
ReadOperations ==
    {"ReadGitCommit", "GitCommitExists", "GetAllGitCommits",
     "GetRepositoryVersion", "GetAllPushTransactions"}

SameCall ==
    /\ last'.op = last.op
    /\ last'.repository = last.repository
    /\ last'.commitHash = last.commitHash

C14_ReadsChangeNothing ==
    [][(ntx' = ntx + 1 /\ last'.op \in ReadOperations) =>
          /\ world' = world
          /\ last'.wrote = {}
          /\ (SameCall => last'.err = last.err /\ last'.ret = last.ret)]_vars

\* A read that failed on a store that holds commits.
C14_Witness ==
    /\ last.op \in ReadOperations
    /\ last.err # "OK"
    /\ \E k \in DOMAIN world : IsCommitRecord(world[k])

----------------------------------------------------------------------------
(* C15: when two transactions that increment the same repository's counter *)
(* (incrementVersion(R) or handlePush(R, ..)) were both simulated against   *)
(* the same committed value, the one ordered later is rejected and not      *)
(* applied; hence in every reachable state R's counter equals its initial   *)
(* value plus the number of committed increments.                           *)
Incrementing == {"IncrementVersionNumber", "HandleGitPush"}

\* This step orders the waiting transaction number i.
Ordered(i) ==
    /\ i \in 1..Len(pending)
    /\ pending' = Remove(pending, i)
    /\ ntx' = ntx

\* The counter of p's repository was written after p's simulation read it.
ReadStaleCounter(p) ==
    /\ VersionKey(p.repository) \in DOMAIN p.rs
    /\ p.rs[VersionKey(p.repository)] # Version(ver, VersionKey(p.repository))

Rejected ==
    /\ last'.err = "MVCC_READ_CONFLICT"
    /\ world' = world

C15_NoLostIncrement ==
    /\ [][\A i \in 1..Len(pending) :
            (Ordered(i) /\ pending[i].op \in Incrementing /\ ReadStaleCounter(pending[i]))
                => Rejected]_vars
    /\ [](\A R \in AllRepos :
            incs[R].tracked =>
                /\ Present(world, VersionKey(R))
                /\ Counter(world, R) = 1 + incs[R].n)

----------------------------------------------------------------------------
(* C16: two createCommit transactions with different hashes for the same   *)
(* unseen repository R, both simulated before either is applied, both see  *)
(* R's counter absent and both seed it at 1; validation rejects the one     *)
(* ordered later, so that afterwards exactly one of the two commits is      *)
(* applied and R's counter is 1.                                            *)

\* The simulation of the createCommit p found no counter and seeded one.
Seeds(p) ==
    /\ p.op = "CreateGitCommit"
    /\ VersionKey(p.repository) \in DOMAIN p.tx.ws

\* The transaction committed last was a createCommit that seeded the counter
\* of p's repository, for another hash than p's.
SeededJustBefore(p) ==
    /\ last.op = "CreateGitCommit"
    /\ last.err = "OK"
    /\ last.repository = p.repository
    /\ last.commitHash # p.commitHash
    /\ VersionKey(p.repository) \in last.wrote

C16_SeedingRaceHasOneWinner ==
    [][\A i \in 1..Len(pending) :
          (Ordered(i) /\ Seeds(pending[i]) /\ SeededJustBefore(pending[i]))
              => /\ Rejected
                 /\ StoredUnderOwnHash(world', last.commitHash)
                 /\ GetState(world', last.commitHash).Repository = last.repository
                 /\ Counter(world', pending[i].repository) = 1]_vars

\* The loser of the race has just been rejected: its hash is not stored, a
\* commit of its repository is, and the counter is 1.
C16_Witness ==
    /\ last.op = "CreateGitCommit"
    /\ last.err = "MVCC_READ_CONFLICT"
    /\ ~Present(world, last.commitHash)
    /\ Counter(world, last.repository) = 1
    /\ \E h \in DOMAIN world :
           /\ StoredUnderOwnHash(world, h)
           /\ GetState(world, h).Repository = last.repository
           /\ GetState(world, h).VersionNumber = 1
    /\ pending = <<>>
    /\ ntx = 2

----------------------------------------------------------------------------
(* C17: the versionNumber of every applied CommitRecord equals the counter *)
(* of its repository in the committed state at the moment its createCommit *)
(* was applied (1 if it seeded the counter); a createCommit simulated       *)
(* against a counter that a concurrent increment, push or setVersion has    *)
(* overwritten since is rejected.                                           *)
CounterAtApply(repository) ==
    IF Present(world, VersionKey(repository)) THEN Counter(world, repository) ELSE 1

C17_CommitStampIsCurrent ==
    [][\A i \in 1..Len(pending) :
          LET p == pending[i]
          IN  (Ordered(i) /\ p.op = "CreateGitCommit") =>
                  /\ last'.err = "OK" =>
                        /\ StoredUnderOwnHash(world', p.commitHash)
                        /\ GetState(world', p.commitHash).VersionNumber
                               = CounterAtApply(p.repository)
                  /\ ReadStaleCounter(p) => Rejected]_vars

\* A createCommit has been applied with version 2 after a committed
\* increment, push or setVersion on its repository had raised the counter.
C17_Witness ==
    /\ last.op = "CreateGitCommit"
    /\ last.err = "OK"
    /\ StoredUnderOwnHash(world, last.commitHash)
    /\ GetState(world, last.commitHash).VersionNumber = 2
    /\ Counter(world, last.repository) = 2
    /\ bumped[last.repository] # {}

----------------------------------------------------------------------------
(* C18: two successful handlePush transactions on the same repository whose *)
(* timestamps fall in the same second write the same push key: afterwards   *)
(* the store holds one PushEvent under that key, the one written by the     *)
(* later transaction, while the repository's counter has been incremented   *)
(* twice.                                                                   *)
PushKeys(w) == {k \in DOMAIN w : HasPrefix(k, PUSH_)}

\* The two pushes, applied one after the other within the second now to the
\* committed state, for every choice of their arguments.
C18_SameSecondPushesCollide ==
    \A R \in Repos, url1, url2 \in URLs, h1, h2 \in Hashes :
        LET first == HandleGitPush(world, now, R, url1, h1)
            between == Commit(world, first)
            second == HandleGitPush(between, now, R, url2, h2)
            after == Commit(between, second)
        IN  (first.err = "OK" /\ second.err = "OK") =>
                /\ PushKey(R, now) \in DOMAIN first.ws
                /\ PushKey(R, now) \in DOMAIN second.ws
                /\ PushKeys(after) \ PushKeys(world) \subseteq {PushKey(R, now)}
                /\ IsPushEvent(after[PushKey(R, now)])
                /\ after[PushKey(R, now)] = second.ws[PushKey(R, now)]
                /\ after[PushKey(R, now)].CommitHash = h2
                /\ Counter(after, R) = Counter(world, R) + 2

----------------------------------------------------------------------------
(* C19: listAllCommits scans the whole key space: its result has exactly   *)
(* one entry for every key of the store, the version records and the push  *)
(* records, decoded as CommitRecords, among them.                          *)
C19_ListHasEveryKey ==
    last.op = "GetAllGitCommits" =>
        /\ Len(last.ret) = Cardinality(DOMAIN world)
        /\ {last.ret[i] : i \in 1..Len(last.ret)}
               = {UnmarshalGitCommit(world[k]) : k \in DOMAIN world}

\* A listing of a store that holds a commit, a counter and a push event.
C19_Witness ==
    /\ last.op = "GetAllGitCommits"
    /\ Len(last.ret) = Cardinality(DOMAIN world)
    /\ \E k \in DOMAIN world : HasPrefix(k, VERSION_) /\ ~IsCommitRecord(world[k])
    /\ \E k \in DOMAIN world : HasPrefix(k, PUSH_) /\ IsPushEvent(world[k])
    /\ \E k \in DOMAIN world : StoredUnderOwnHash(world, k)

----------------------------------------------------------------------------
(* C20: listAllPushEvents returns every PushEvent that a successful        *)
(* handlePush has stored, for every repository name: the upper bound of     *)
(* its range, "PUSH_" followed by the sentinel, is greater than every push  *)
(* key handlePush can write, and the events come in ascending key order.    *)
StoredPushEvents(w) == {k \in PushKeys(w) : IsPushEvent(w[k])}

Returned(pushTransactions, json) ==
    {i \in 1..Len(pushTransactions) :
        pushTransactions[i] = UnmarshalPushTransaction(json)}

C20_ListHasEveryPushEvent ==
    last.op = "GetAllPushTransactions" =>
        /\ \A k \in StoredPushEvents(world) :
               /\ StringLess(k, PUSH_End)
               /\ Returned(last.ret, world[k]) # {}
        /\ \A k1, k2 \in StoredPushEvents(world) :
               StringLess(k1, k2) =>
                   \E i \in Returned(last.ret, world[k1]),
                      j \in Returned(last.ret, world[k2]) : i < j

----------------------------------------------------------------------------
(* C21: in every reachable state every key "VERSION_" + R of the store     *)
(* holds a RepositoryVersion whose repository is R, whatever commit hashes  *)
(* and repository names the callers choose; so incrementVersion(R) and      *)
(* handlePush(R, ..) write their increment back to the key they read.       *)
IsRepositoryVersion(json) == DOMAIN json = {"Repository", "VersionNumber"}

C21_VersionKeysHoldCounters ==
    /\ [](\A k \in DOMAIN world :
            HasPrefix(k, VERSION_) =>
                /\ IsRepositoryVersion(world[k])
                /\ k = VersionKey(world[k].Repository))
    /\ [][\A R \in Repos :
            ( /\ ntx' = ntx + 1
              /\ last'.op \in Incrementing
              /\ last'.repository = R
              /\ last'.err = "OK" )
                => /\ VersionKey(R) \in last'.wrote
                   /\ IsRepositoryVersion(world'[VersionKey(R)])
                   /\ Counter(world', R) = Counter(world, R) + 1]_vars

----------------------------------------------------------------------------
(* Runs of concurrent clients that never call SetRepositoryVersion and in   *)
(* which InitLedger, if it runs at all, has run once before everything      *)
(* else.  The reads are left out: they write nothing and are not ordered.   *)
NextNoSetVersion ==
    \/ Tick
    \/ EndorseCreateGitCommit
    \/ EndorseIncrementVersionNumber
    \/ EndorseHandleGitPush
    \/ Order

SpecNoSetVersion == InitMVCC /\ [][NextNoSetVersion]_vars

(* C22: in a run that uses only createCommit, incrementVersion, handlePush  *)
(* and the reads, under any interleaving of concurrently submitted          *)
(* transactions, no two stored PushEvents of the same repository carry the  *)
(* same version number.                                                     *)
C22_PushVersionsDistinct ==
    \A k1, k2 \in StoredPushEvents(world) :
        (k1 # k2 /\ world[k1].repository = world[k2].repository)
            => world[k1].version # world[k2].version

====
